---- MODULE Spec2Model ----
(***************************************************************************)
(* Model of options.py (viseryon/vix_for_wig).                             *)
(*                                                                         *)
(*   get_option_prices   sequential download of the daily archive pages,   *)
(*                       with a retry on httpx.ReadTimeout, followed by    *)
(*                       the assembly of the price table.                  *)
(*   preprocess_greeks   load of the greeks rows and of option_codes.json, *)
(*                       the merge, the unpacking of the ticker and the    *)
(*                       reconstruction of the maturity date.              *)
(*                                                                         *)
(* A run executes one of the two functions.  Strings are sequences of      *)
(* one-character strings, so that slicing, concatenation and parsing are   *)
(* computed and not assumed.                                               *)
(***************************************************************************)
EXTENDS Integers, Sequences, FiniteSets, TLC

VARIABLES
    pc,                 \* position of the running function
    dates,              \* get_option_prices: the business dates of the range
    i,                  \* get_option_prices: index of the date being requested
    responses,          \* get_option_prices: the (date, response) pairs
    last_request,       \* get_option_prices: date and outcome of the last client.get
    pos,                \* get_option_prices: number of responses already parsed
    master,             \* the accumulated table of the running function
    option_prices_csv,  \* the file option_prices.csv
    option_greeks,      \* the ticker column of the files of option_greeks/
    option_codes_json,  \* the key/value pairs of option_codes.json, in file order
    this_year,          \* the calendar year in which the program runs
    codes,              \* preprocess_greeks: the reference table
    option_greeks_csv,  \* the file option_greeks.csv
    origin              \* the fields a synthetic ticker was built from

vars == << pc, dates, i, responses, last_request, pos, master, option_prices_csv,
           option_greeks, option_codes_json, this_year, codes, option_greeks_csv,
           origin >>

prices_vars == << dates, i, responses, last_request, pos, option_prices_csv >>

greeks_vars == << option_greeks, option_codes_json, this_year, codes,
                  option_greeks_csv, origin >>

-----------------------------------------------------------------------------
(* Bounds of the model.                                                    *)

MaxDates == 3

MaxPageRows == 1

MaxRows == 2

MaxCodeEntries == 2

-----------------------------------------------------------------------------
(* Generic helpers.                                                        *)

SeqsUpTo(S, n) == UNION { [1..k -> S] : k \in 0..n }

NoFile == [written |-> FALSE, table |-> << >>]

NoRequest == [date |-> 0, outcome |-> "none"]

NoOrigin == [format |-> "none", underlying |-> << >>, series_code |-> << >>,
             year |-> 0, strike |-> 0]

-----------------------------------------------------------------------------
(* get_option_prices                                                       *)

PriceRows == {"a", "b"}

\* A page is what pd.read_html finds in it: the number of tables, and the rows
\* of the second table when there is one.
Pages == { [ntables |-> n, rows |-> << >>] : n \in 0..1 }
            \cup { [ntables |-> 2, rows |-> r] : r \in SeqsUpTo(PriceRows, MaxPageRows) }

\* pd.date_range(start, end, freq="B"): n consecutive business days, here
\* numbered 1..n in date order.
date_range(n) == [k \in 1..n |-> k]

LoopCond == i < Len(dates)

\* Variant of GetResponse: the index advances and the pair is not recorded.
GetResponseForgetsMut ==
    /\ pc = "fetch"
    /\ LoopCond
    /\ \E page \in Pages :
          /\ last_request' = [date |-> dates[i + 1], outcome |-> "response"]
          /\ responses' = responses
          /\ i' = i + 1
    /\ UNCHANGED << pc, dates, pos, master, option_prices_csv, greeks_vars >>

\* lines 40-46: client.get returns; the pair is recorded and i advances.
GetResponse ==
    /\ pc = "fetch"
    /\ LoopCond
    /\ \E page \in Pages :
          /\ last_request' = [date |-> dates[i + 1], outcome |-> "response"]
          /\ responses' = Append(responses, [date |-> dates[i + 1], page |-> page])
          /\ i' = i + 1
    /\ UNCHANGED << pc, dates, pos, master, option_prices_csv, greeks_vars >>

\* Variant of GetReadTimeout: the index advances past the date that timed out.
GetReadTimeoutSkipsMut ==
    /\ pc = "fetch"
    /\ LoopCond
    /\ last_request' = [date |-> dates[i + 1], outcome |-> "timeout"]
    /\ i' = i + 1
    /\ UNCHANGED << pc, dates, responses, pos, master, option_prices_csv, greeks_vars >>

\* lines 40-44, 47-49: client.get raises httpx.ReadTimeout; continue.
GetReadTimeout ==
    /\ pc = "fetch"
    /\ LoopCond
    /\ last_request' = [date |-> dates[i + 1], outcome |-> "timeout"]
    /\ UNCHANGED << pc, dates, i, responses, pos, master, option_prices_csv, greeks_vars >>

\* lines 40-44: client.get raises anything else; nothing catches it.
GetOtherError ==
    /\ pc = "fetch"
    /\ LoopCond
    /\ last_request' = [date |-> dates[i + 1], outcome |-> "error"]
    /\ pc' = "prices_raised"
    /\ UNCHANGED << dates, i, responses, pos, master, option_prices_csv, greeks_vars >>

\* line 40 false, line 51: the loop ends and master starts empty.
EndFetch ==
    /\ pc = "fetch"
    /\ ~LoopCond
    /\ pc' = "parse"
    /\ master' = << >>
    /\ UNCHANGED << prices_vars, greeks_vars >>

\* lines 55-57: read_html fails, or dfs[1] does not exist.
HasOptions(page) == page.ntables >= 2

\* lines 57-58: the second table, every row given the column DATE.
Options(resp) == [k \in 1..Len(resp.page.rows) |-> [row |-> resp.page.rows[k], DATE |-> resp.date]]

\* Variant of Concat: master = options
ConcatOverwriteMut(table, options) == options

\* line 60: pd.concat([master, options])
Concat(table, options) == table \o options

\* lines 53-60: a page with the second table.
ParsePage ==
    /\ pc = "parse"
    /\ pos < Len(responses)
    /\ HasOptions(responses[pos + 1].page)
    /\ master' = Concat(master, Options(responses[pos + 1]))
    /\ pos' = pos + 1
    /\ UNCHANGED << pc, dates, i, responses, last_request, option_prices_csv, greeks_vars >>

\* lines 53-57, 62-64: the page has no second table; except Exception: continue.
SkipPage ==
    /\ pc = "parse"
    /\ pos < Len(responses)
    /\ ~HasOptions(responses[pos + 1].page)
    /\ pos' = pos + 1
    /\ UNCHANGED << pc, dates, i, responses, last_request, master, option_prices_csv,
                    greeks_vars >>

\* lines 66-67: master.to_csv("option_prices.csv"); return master
WritePrices ==
    /\ pc = "parse"
    /\ pos = Len(responses)
    /\ option_prices_csv' = [written |-> TRUE, table |-> master]
    /\ pc' = "prices_done"
    /\ UNCHANGED << dates, i, responses, last_request, pos, master, greeks_vars >>

\* get_option_prices(start, end) is called: lines 31-36.
InitPrices ==
    /\ pc = "fetch"
    /\ \E n \in 0..MaxDates : dates = date_range(n)
    /\ i = 0
    /\ responses = << >>
    /\ last_request = NoRequest
    /\ pos = 0
    /\ master = << >>
    /\ option_prices_csv = NoFile
    /\ option_greeks = << >>
    /\ option_codes_json = << >>
    /\ this_year = 0
    /\ codes = << >>
    /\ option_greeks_csv = NoFile
    /\ origin = NoOrigin

NextPrices ==
    \/ GetResponse
    \/ GetReadTimeout
    \/ GetOtherError
    \/ EndFetch
    \/ ParsePage
    \/ SkipPage
    \/ WritePrices

PricesSpec == InitPrices /\ [][NextPrices]_vars

\* The interpreter keeps executing the function, and every date is eventually
\* answered: the read timeouts of a date do not go on forever.
PricesFairSpec ==
    /\ PricesSpec
    /\ WF_vars(GetResponse)
    /\ WF_vars(EndFetch)
    /\ WF_vars(ParsePage)
    /\ WF_vars(SkipPage)
    /\ WF_vars(WritePrices)

-----------------------------------------------------------------------------
(* Strings, as pandas and Python treat them.                               *)

Digits == << "0", "1", "2", "3", "4", "5", "6", "7", "8", "9" >>

DigitChars == { Digits[k] : k \in 1..10 }

DigitVal(c) == (CHOOSE k \in 1..10 : Digits[k] = c) - 1

\* A missing value of a string column.
NaN == << "NaN" >>

\* A missing value of the column type.
TypeNaN == "NaN"

\* A missing value of a datetime column.
NaT == [year |-> 0, month |-> 0, day |-> 0]

\* s[a:b]
Slice(s, a, b) == SubSeq(s, a + 1, IF b < Len(s) THEN b ELSE Len(s))

\* s[a:]
SliceFrom(s, a) == Slice(s, a, Len(s))

\* Series.str[k]: the character, or NaN past the end of the string.
Get(s, k) == IF k < Len(s) THEN << s[k + 1] >> ELSE NaN

\* The operator + of two object columns: NaN when either side is missing.
Plus(a, b) == IF a = NaN \/ b = NaN THEN NaN ELSE a \o b

\* int(x) succeeds on a non-empty string of digits.
IsIntLiteral(s) == s # NaN /\ Len(s) > 0 /\ \A k \in 1..Len(s) : s[k] \in DigitChars

RECURSIVE IntValue(_)
\* int(x), for a string of digits
IntValue(s) ==
    IF Len(s) = 0 THEN 0
    ELSE 10 * IntValue(SubSeq(s, 1, Len(s) - 1)) + DigitVal(s[Len(s)])

RECURSIVE str(_)
\* str(n), for n >= 0
str(n) == IF n < 10 THEN << Digits[n + 1] >> ELSE str(n \div 10) \o << Digits[(n % 10) + 1] >>

RECURSIVE Flatten(_)
Flatten(ss) == IF Len(ss) = 0 THEN << >> ELSE Head(ss) \o Flatten(Tail(ss))

-----------------------------------------------------------------------------
(* preprocess_greeks: the reference table and the merge.                   *)

HasKey(d, key) == \E k \in 1..Len(d) : d[k].key = key

RECURSIVE json_load(_)
\* json.load of an object: a dict keeps one value per key, the last one of the
\* file, at the place of the key's first occurrence.
json_load(pairs) ==
    IF Len(pairs) = 0 THEN << >>
    ELSE LET d    == json_load(SubSeq(pairs, 1, Len(pairs) - 1))
             last == pairs[Len(pairs)]
         IN  IF HasKey(d, last.key)
             THEN [k \in 1..Len(d) |-> IF d[k].key = last.key THEN last ELSE d[k]]
             ELSE Append(d, last)

\* pd.DataFrame(codes).T.reset_index() and astype({"maturity_month": str})
CodesFrame(d) ==
    [k \in 1..Len(d) |-> [index          |-> d[k].key,
                          maturity_month |-> str(d[k].maturity_month),
                          type           |-> d[k].type]]

\* validate="many_to_one": the merge keys are unique in the right table.
ManyToOne(right) ==
    \A a, b \in 1..Len(right) : right[a].index = right[b].index => a = b

\* how="left": one row per matching reference row, or one row of missing
\* values when nothing matches.
MergeRow(row, right) ==
    LET m == SelectSeq(right, LAMBDA c : c.index = row.code)
    IN  IF Len(m) = 0
        THEN << [ticker |-> row.ticker, underlying |-> row.underlying, code |-> row.code,
                 maturity_month |-> NaN, type |-> TypeNaN] >>
        ELSE [k \in 1..Len(m) |->
                [ticker |-> row.ticker, underlying |-> row.underlying, code |-> row.code,
                 maturity_month |-> m[k].maturity_month, type |-> m[k].type]]

merge(left, right) == Flatten([k \in 1..Len(left) |-> MergeRow(left[k], right)])

\* lines 87-116: the rows of the greeks files and the reference table are read.
ReadInputs ==
    /\ pc = "read"
    /\ master' = [k \in 1..Len(option_greeks) |-> [ticker |-> option_greeks[k]]]
    /\ codes' = CodesFrame(json_load(option_codes_json))
    /\ pc' = "merge"
    /\ UNCHANGED << prices_vars, option_greeks, option_codes_json, this_year,
                    option_greeks_csv, origin >>

\* Variant of Underlying: master.ticker.str[0:3]
UnderlyingMut(ticker) == Slice(ticker, 0, 3)

\* line 118: master.ticker.str[1:4]
Underlying(ticker) == Slice(ticker, 1, 4)

\* line 119: master.ticker.str[4]
Code(ticker) == Get(ticker, 4)

\* lines 118-124: underlying, code, and the merge with the reference table; a
\* MergeError ends the run.
MergeCodes ==
    /\ pc = "merge"
    /\ LET left == [k \in 1..Len(master) |->
                      [ticker     |-> master[k].ticker,
                       underlying |-> Underlying(master[k].ticker),
                       code       |-> Code(master[k].ticker)]]
       IN  IF ManyToOne(codes)
           THEN /\ master' = merge(left, codes)
                /\ pc' = "unpack"
           ELSE /\ master' = master
                /\ pc' = "greeks_raised"
    /\ UNCHANGED << prices_vars, greeks_vars >>

-----------------------------------------------------------------------------
(* preprocess_greeks: unpacking the ticker.                                *)

LegacyLen == 4

ModernLen == 6

YearThreshold == 6

\* Variant of OldLowMask: master.y < 5
OldLowMaskMut(t, y) == t = LegacyLen /\ y < YearThreshold - 1

\* line 137: (master.t == 4) & (master.y < 6)
OldLowMask(t, y) == t = LegacyLen /\ y < YearThreshold

\* line 141: (master.t == 4) & (master.y >= 6)
OldHighMask(t, y) == t = LegacyLen /\ y >= YearThreshold

\* Variant of NewMask: (master.t == 6) & (master.y >= 6)
NewMaskMut(t, y) == t = ModernLen /\ y >= YearThreshold

\* line 147: master.t == 6
NewMask(t, y) == t = ModernLen

\* line 148: master.year_strike.str[:2]
NewYear(year_strike) == Slice(year_strike, 0, 2)

\* lines 139, 143: master.year_strike.str[1:]
OldStrike(year_strike) == SliceFrom(year_strike, 1)

\* lines 138-149 on one row: the three masked assignments, in order; a row
\* that no mask selects keeps missing values.
UnpackRow(row) ==
    LET year_strike == SliceFrom(row.ticker, 5)
        t   == Len(year_strike)
        y   == IntValue(Get(year_strike, 0))
        my1 == IF OldLowMask(t, y) THEN << "1" >> \o Get(year_strike, 0) ELSE NaN
        st1 == IF OldLowMask(t, y) THEN OldStrike(year_strike) ELSE NaN
        my2 == IF OldHighMask(t, y) THEN Get(year_strike, 0) ELSE my1
        st2 == IF OldHighMask(t, y) THEN OldStrike(year_strike) ELSE st1
        my3 == IF NewMask(t, y) THEN NewYear(year_strike) ELSE my2
        st3 == IF NewMask(t, y) THEN SliceFrom(year_strike, 2) ELSE st2
    IN  [ticker |-> row.ticker, underlying |-> row.underlying, code |-> row.code,
         maturity_month |-> row.maturity_month, type |-> row.type,
         year_strike |-> year_strike, t |-> t, y |-> y,
         maturity_year |-> my3, strike |-> st3]

\* line 130: astype(int) of the first character of the suffix raises on a
\* missing value (empty suffix) and on a character that is no digit.
FirstCharIsInt(ticker) == IsIntLiteral(Get(SliceFrom(ticker, 5), 0))

\* lines 126-149
UnpackTicker ==
    /\ pc = "unpack"
    /\ IF \A k \in 1..Len(master) : FirstCharIsInt(master[k].ticker)
       THEN /\ master' = [k \in 1..Len(master) |-> UnpackRow(master[k])]
            /\ pc' = "maturity"
       ELSE /\ master' = master
            /\ pc' = "greeks_raised"
    /\ UNCHANGED << prices_vars, greeks_vars >>

-----------------------------------------------------------------------------
(* preprocess_greeks: the maturity date.                                   *)

RECURSIVE Split(_)
\* the tokens of a date string, separated by "-"
Split(s) ==
    IF \A k \in 1..Len(s) : s[k] # "-" THEN << s >>
    ELSE LET k == CHOOSE k \in 1..Len(s) : s[k] = "-" /\ \A h \in 1..(k - 1) : s[h] # "-"
         IN  << SubSeq(s, 1, k - 1) >> \o Split(SubSeq(s, k + 1, Len(s)))

IsLeap(y) == (y % 4 = 0 /\ y % 100 # 0) \/ y % 400 = 0

DaysInMonth(y, m) ==
    IF m = 2 THEN (IF IsLeap(y) THEN 29 ELSE 28)
    ELSE IF m \in {4, 6, 9, 11} THEN 30 ELSE 31

\* dateutil parserinfo.convertyear: a year below 100 is taken in the century
\* of the current year, then moved into the window [now - 50, now + 49].
ConvertYear(year, now) ==
    IF year >= 100 THEN year
    ELSE LET c == year + (now \div 100) * 100
         IN  IF c >= now + 50 THEN c - 100
             ELSE IF c < now - 50 THEN c + 100
             ELSE c

ParseError == [year |-> -1, month |-> -1, day |-> -1]

\* pd.to_datetime(x, yearfirst=True) of one value.  A string that is no ISO
\* date is parsed by dateutil: three numeric tokens are year, month, day
\* when yearfirst is set and the second is at most 12 and the third at
\* most 31, or when the first exceeds 31; else day, month, year when the first
\* exceeds 12; else month, day, year.
to_datetime(x, now) ==
    IF x = NaN THEN NaT
    ELSE LET tok == Split(x)
         IN  IF Len(tok) # 3 \/ \E k \in 1..Len(tok) : ~IsIntLiteral(tok[k])
             THEN ParseError
             ELSE LET a == IntValue(tok[1])
                      b == IntValue(tok[2])
                      c == IntValue(tok[3])
                      ymd == IF a > 31 \/ (b <= 12 /\ c <= 31) THEN << a, b, c >>
                             ELSE IF a > 12 THEN << c, b, a >>
                             ELSE << c, a, b >>
                      year == ConvertYear(ymd[1], now)
                  IN  IF ymd[2] \in 1..12 /\ ymd[3] >= 1 /\ ymd[3] <= DaysInMonth(year, ymd[2])
                      THEN [year |-> year, month |-> ymd[2], day |-> ymd[3]]
                      ELSE ParseError

SakamotoArr == << 0, 3, 2, 5, 0, 3, 5, 1, 4, 6, 2, 4 >>

\* pandas dayofweek: Monday is 0.
dayofweek(y, m, d) ==
    LET yy  == IF m < 3 THEN y - 1 ELSE y
        day == (yy + yy \div 4 - yy \div 100 + yy \div 400 + SakamotoArr[m] + d) % 7
    IN  (day + 6) % 7

Week == 2

Weekday == 4

\* WeekOfMonth._get_offset_day: the day of the month of the wanted weekday of
\* the wanted week.
OffsetDay(y, m) ==
    LET wday       == dayofweek(y, m, 1)
        shift_days == (Weekday - wday) % 7
    IN  1 + shift_days + Week * 7

\* date + pd.offsets.WeekOfMonth(week=2, weekday=4): the next such day after
\* the date, which is in the same month when the date is before it.
AddWeekOfMonth(date) ==
    IF date = NaT THEN NaT
    ELSE IF date.day < OffsetDay(date.year, date.month)
         THEN [year |-> date.year, month |-> date.month,
               day |-> OffsetDay(date.year, date.month)]
         ELSE LET ny == IF date.month = 12 THEN date.year + 1 ELSE date.year
                  nm == IF date.month = 12 THEN 1 ELSE date.month + 1
              IN  [year |-> ny, month |-> nm, day |-> OffsetDay(ny, nm)]

\* line 153: master.maturity_year + "-" + master.maturity_month + "-01"
MaturityString(row) ==
    Plus(Plus(Plus(row.maturity_year, << "-" >>), row.maturity_month), << "-", "0", "1" >>)

\* lines 151-157: the first day of the month, moved to the third Friday; a
\* string that does not parse ends the run.
BuildMaturity ==
    /\ pc = "maturity"
    /\ LET first == [k \in 1..Len(master) |-> to_datetime(MaturityString(master[k]), this_year)]
       IN  IF \A k \in 1..Len(master) : first[k] # ParseError
           THEN /\ master' = [k \in 1..Len(master) |->
                                [ticker |-> master[k].ticker,
                                 underlying |-> master[k].underlying,
                                 code |-> master[k].code,
                                 maturity_month |-> master[k].maturity_month,
                                 type |-> master[k].type,
                                 year_strike |-> master[k].year_strike,
                                 t |-> master[k].t, y |-> master[k].y,
                                 maturity_year |-> master[k].maturity_year,
                                 strike |-> master[k].strike,
                                 maturity |-> AddWeekOfMonth(first[k])]]
                /\ pc' = "finish"
           ELSE /\ master' = master
                /\ pc' = "greeks_raised"
    /\ UNCHANGED << prices_vars, greeks_vars >>

\* lines 159-170: the temporary columns are dropped, strike becomes an integer
\* (astype raises on a missing strike), the table is written and returned.
FinishGreeks ==
    /\ pc = "finish"
    /\ IF \A k \in 1..Len(master) : IsIntLiteral(master[k].strike)
       THEN /\ master' = [k \in 1..Len(master) |->
                            [ticker |-> master[k].ticker,
                             underlying |-> master[k].underlying,
                             code |-> master[k].code,
                             type |-> master[k].type,
                             strike |-> IntValue(master[k].strike),
                             maturity |-> master[k].maturity]]
            /\ option_greeks_csv' = [written |-> TRUE, table |-> master']
            /\ pc' = "greeks_done"
       ELSE /\ master' = master
            /\ option_greeks_csv' = option_greeks_csv
            /\ pc' = "greeks_raised"
    /\ UNCHANGED << prices_vars, option_greeks, option_codes_json, this_year, codes, origin >>

NextGreeks ==
    \/ ReadInputs
    \/ MergeCodes
    \/ UnpackTicker
    \/ BuildMaturity
    \/ FinishGreeks

-----------------------------------------------------------------------------
(* The inputs of preprocess_greeks.                                        *)

RunYears == {2024, 2026}

Ticker(underlying, code, suffix) == << "O" >> \o underlying \o code \o suffix

W20 == << "W", "2", "0" >>

W40 == << "W", "4", "0" >>

\* The reference entries of option_codes.json: series code C is a call of
\* March or of December, series code O a put of March.
CodeEntries ==
    { [key |-> << "C" >>, maturity_month |-> 3,  type |-> "C"],
      [key |-> << "C" >>, maturity_month |-> 12, type |-> "C"],
      [key |-> << "O" >>, maturity_month |-> 3,  type |-> "P"] }

\* Suffixes of length 4, 6, 5, 3 and 0.
BatchSuffixes ==
    { << "4", "1", "2", "5" >>, << "1", "8", "1", "2", "5", "0" >>,
      << "7", "1", "2", "0", "0" >>, << "4", "1", "2" >>, << >> }

\* Series code Z has no reference entry.
BatchTickers == { Ticker(W20, c, s) : c \in { << "C" >>, << "Z" >> }, s \in BatchSuffixes }

GreeksStart ==
    /\ pc = "read"
    /\ dates = << >>
    /\ i = 0
    /\ responses = << >>
    /\ last_request = NoRequest
    /\ pos = 0
    /\ master = << >>
    /\ option_prices_csv = NoFile
    /\ codes = << >>
    /\ option_greeks_csv = NoFile

\* preprocess_greeks() is called on a batch of rows and a reference file.
InitBatch ==
    /\ GreeksStart
    /\ option_greeks \in SeqsUpTo(BatchTickers, MaxRows) \ { << >> }
    /\ option_codes_json \in SeqsUpTo(CodeEntries, MaxCodeEntries) \ { << >> }
    /\ this_year \in RunYears
    /\ origin = NoOrigin

StrikeTails3 == { << "1", "2", "5" >>, << "0", "0", "5" >>, << "9", "9", "9" >> }

StrikeTails4 == { << "1", "2", "5", "0" >>, << "0", "0", "0", "5" >>, << "9", "9", "9", "9" >> }

\* Every first digit with three strike digits; every pair of year digits with
\* four strike digits.
DecodeSuffixes ==
    { << d >> \o k : d \in DigitChars, k \in StrikeTails3 }
        \cup { << d, e >> \o k : d \in DigitChars, e \in DigitChars, k \in StrikeTails4 }

\* preprocess_greeks() is called on one well-formed row whose series code has
\* a reference entry, of any month.
InitDecode ==
    /\ GreeksStart
    /\ \E s \in DecodeSuffixes : option_greeks = << Ticker(W20, << "C" >>, s) >>
    /\ \E m \in 1..12 :
          option_codes_json = << [key |-> << "C" >>, maturity_month |-> m, type |-> "C"] >>
    /\ this_year \in RunYears
    /\ origin = NoOrigin

RECURSIVE ZeroPad(_, _)
\* the decimal digits of n, padded with zeros to at least w digits
ZeroPad(n, w) == IF Len(str(n)) >= w THEN str(n) ELSE << "0" >> \o SubSeq(ZeroPad(n, w - 1), 1, w - 1)

\* The exchange's encoding of a ticker: in the legacy format the last digit of
\* the year and three strike digits, in the modern format two year digits
\* and four strike digits.
Encode(o) ==
    Ticker(o.underlying, o.series_code,
           IF o.format = "legacy"
           THEN << Digits[(o.year % 10) + 1] >> \o ZeroPad(o.strike, 3)
           ELSE ZeroPad(o.year, 2) \o ZeroPad(o.strike, 4))

RoundTripStrikes == {0, 5, 125, 999, 1000, 1250, 9999}

Origins ==
    [format : {"legacy", "modern"}, underlying : {W20, W40},
     series_code : { << "C" >>, << "O" >> }, year : 0..99, strike : RoundTripStrikes]

\* preprocess_greeks() is called on one synthetic ticker.
InitRoundTrip ==
    /\ GreeksStart
    /\ origin \in Origins
    /\ option_greeks = << Encode(origin) >>
    /\ option_codes_json = << [key |-> << "C" >>, maturity_month |-> 3, type |-> "C"],
                              [key |-> << "O" >>, maturity_month |-> 3, type |-> "P"] >>
    /\ this_year = 2024

BatchSpec == InitBatch /\ [][NextGreeks]_vars

DecodeSpec == InitDecode /\ [][NextGreeks]_vars

RoundTripSpec == InitRoundTrip /\ [][NextGreeks]_vars

-----------------------------------------------------------------------------
(* The program: one of the two functions is run.                           *)

Init == InitPrices \/ InitBatch \/ InitDecode \/ InitRoundTrip

Next == NextPrices \/ NextGreeks

Spec == Init /\ [][Next]_vars

-----------------------------------------------------------------------------
(* Properties of get_option_prices.                                        *)

OnePerDate(n) ==
    /\ Len(responses) = n
    /\ n <= Len(dates)
    /\ \A k \in 1..n : responses[k].date = dates[k]

RequestMade == last_request' # last_request

\* C6: requests go out in date order; the request after a read timeout is for
\* the same date; a timeout leaves the index and the recorded responses alone
\* and a response advances the index by one and records one pair for that date;
\* so the recorded responses are always one per date of a prefix of the dates.
C6_RetrySameDate ==
    /\ [](OnePerDate(i))
    /\ [][ /\ RequestMade => last_request'.date = dates[i + 1]
           /\ (RequestMade /\ last_request.outcome = "timeout")
                 => last_request'.date = last_request.date
           /\ (RequestMade /\ last_request'.outcome = "timeout")
                 => (i' = i /\ responses' = responses)
           /\ (RequestMade /\ last_request'.outcome = "response")
                 => /\ i' = i + 1
                    /\ Len(responses') = Len(responses) + 1
                    /\ SubSeq(responses', 1, Len(responses)) = responses
                    /\ responses'[Len(responses')].date = last_request'.date
           /\ i' \in {i, i + 1} ]_vars

\* A date that follows a recorded one has timed out and is to be asked again.
C6_Witness ==
    /\ pc = "fetch"
    /\ i >= 1
    /\ i < Len(dates)
    /\ last_request = [date |-> dates[i + 1], outcome |-> "timeout"]
    /\ Len(responses) = i

RECURSIVE Assembled(_)
\* The rows of the pages 1..n that hold a second table, tagged with the date
\* of their page, in page order.
Assembled(n) ==
    IF n = 0 THEN << >>
    ELSE Assembled(n - 1) \o
         ( IF responses[n].page.ntables >= 2
           THEN [k \in 1..Len(responses[n].page.rows) |->
                   [row |-> responses[n].page.rows[k], DATE |-> responses[n].date]]
           ELSE << >> )

\* C7: while the pages are assembled the table holds exactly the rows of the
\* pages parsed so far that have a second table, tagged with their date, in
\* page order, so a page without it changes nothing; no page ends the run with
\* an error, and the table written is the one assembled from every page.
C7_PageWithoutTableSkipped ==
    /\ pc \in {"parse", "prices_done"} => master = Assembled(pos)
    /\ pc = "prices_raised" => (pos = 0 /\ last_request.outcome = "error")
    /\ pc = "prices_done" =>
          /\ pos = Len(responses)
          /\ option_prices_csv = [written |-> TRUE, table |-> Assembled(Len(responses))]

\* A page with rows, then a page without the second table, then a page with
\* rows: the run ends with the rows of the first and of the third.
C7_Witness ==
    /\ pc = "prices_done"
    /\ Len(responses) = 3
    /\ responses[1].page.ntables = 2 /\ Len(responses[1].page.rows) = 1
    /\ responses[2].page.ntables < 2
    /\ responses[3].page.ntables = 2 /\ Len(responses[3].page.rows) = 1
    /\ master = << [row |-> responses[1].page.rows[1], DATE |-> dates[1]],
                   [row |-> responses[3].page.rows[1], DATE |-> dates[3]] >>

\* C10: when every date is eventually answered the fetch loop ends; it ends
\* with one response recorded for every date of the range, in date order, or
\* with an exception that is no read timeout, and then no page was parsed and
\* nothing was written.
C10_FetchLoopTerminates ==
    /\ <>(pc # "fetch")
    /\ [](pc \in {"parse", "prices_done"} => OnePerDate(Len(dates)))
    /\ [](pc = "prices_raised" =>
            (pos = 0 /\ master = << >> /\ option_prices_csv = NoFile))

\* The loop has ended with every date of a range of several dates answered.
C10_Witness ==
    /\ pc = "parse"
    /\ Len(dates) >= 2
    /\ OnePerDate(Len(dates))
    /\ last_request = [date |-> dates[Len(dates)], outcome |-> "response"]

-----------------------------------------------------------------------------
(* Properties of preprocess_greeks.                                        *)

\* The numeric suffix of a ticker: its characters from position 5 on.
SuffixOf(ticker) == [k \in 1..(IF Len(ticker) > 5 THEN Len(ticker) - 5 ELSE 0) |-> ticker[k + 5]]

WellFormed(ticker) == Len(SuffixOf(ticker)) \in {4, 6}

FileKeys == { option_codes_json[k].key : k \in 1..Len(option_codes_json) }

KnownCode(ticker) == Len(ticker) >= 5 /\ << ticker[5] >> \in FileKeys

OutputTickers == { master[k].ticker : k \in 1..Len(master) }

\* C1: a batch that holds a record whose suffix is neither 4 nor 6 long is
\* still processed to the end: that record is absent from the output table
\* and every well-formed record of the batch is present.
C1_MalformedTickerExcluded ==
    ( /\ pc \in {"greeks_done", "greeks_raised"}
      /\ \E k \in 1..Len(option_greeks) : ~WellFormed(option_greeks[k]) )
    => /\ pc = "greeks_done"
       /\ \A k \in 1..Len(option_greeks) :
             WellFormed(option_greeks[k]) /\ KnownCode(option_greeks[k])
                <=> option_greeks[k] \in OutputTickers

\* C2: the output table holds no record whose series code has no entry in
\* the reference table, and holds every record whose series code has one.
C2_UnknownSeriesCodeDropped ==
    pc = "greeks_done" =>
       /\ \A k \in 1..Len(master) : KnownCode(master[k].ticker)
       /\ \A k \in 1..Len(option_greeks) :
             KnownCode(option_greeks[k]) => option_greeks[k] \in OutputTickers

\* The reference file holds two different entries for the series code of a record.
AmbiguousReference ==
    \E k \in 1..Len(option_greeks) : \E a, b \in 1..Len(option_codes_json) :
       /\ option_codes_json[a] # option_codes_json[b]
       /\ option_codes_json[a].key = option_codes_json[b].key
       /\ Len(option_greeks[k]) >= 5
       /\ option_codes_json[a].key = << option_greeks[k][5] >>

C4_ModernDecoding ==
    \A k \in 1..Len(master) :
       LET x == SuffixOf(master[k].ticker)
       IN  Len(x) = 6 =>
             /\ pc \in {"maturity", "finish"} =>
                   /\ master[k].maturity_year = << x[1], x[2] >>
                   /\ master[k].strike = << x[3], x[4], x[5], x[6] >>
             /\ pc = "greeks_done" =>
                   master[k].strike = 1000 * DigitVal(x[3]) + 100 * DigitVal(x[4])
                                        + 10 * DigitVal(x[5]) + DigitVal(x[6])
             /\ pc # "greeks_raised"

\* A modern row whose first digit is below 6 is in the output with its strike.
C4_Witness ==
    /\ pc = "greeks_done"
    /\ Len(master) = 1
    /\ SuffixOf(master[1].ticker) = << "1", "8", "1", "2", "5", "0" >>
    /\ master[1].strike = 1250


RECURSIVE DaysBeforeYear(_)
\* the days from 1 January 1970 to 1 January of year y >= 1970
DaysBeforeYear(y) ==
    IF y = 1970 THEN 0
    ELSE DaysBeforeYear(y - 1)
           + (IF ((y - 1) % 4 = 0 /\ (y - 1) % 100 # 0) \/ (y - 1) % 400 = 0 THEN 366 ELSE 365)

RECURSIVE DaysBeforeMonth(_, _)
\* the days from 1 January of year y to the first of month m
DaysBeforeMonth(y, m) ==
    IF m = 1 THEN 0
    ELSE DaysBeforeMonth(y, m - 1)
           + (IF m - 1 = 2
              THEN (IF (y % 4 = 0 /\ y % 100 # 0) \/ y % 400 = 0 THEN 29 ELSE 28)
              ELSE IF m - 1 \in {4, 6, 9, 11} THEN 30 ELSE 31)

\* 1 January 1970 was a Thursday.
IsFriday(date) ==
    (DaysBeforeYear(date.year) + DaysBeforeMonth(date.year, date.month) + date.day - 1) % 7 = 1

\* The date is the third Friday of its month: a Friday with exactly two
\* Fridays of the month before it, hence on a day in 15..21.
IsThirdFriday(date) ==
    /\ date.day \in 15..21
    /\ IsFriday(date)
    /\ Cardinality({ d \in 1..(date.day - 1) :
                       IsFriday([year |-> date.year, month |-> date.month, day |-> d]) }) = 2

\* C5: a decoded row with year suffix s and reference month m has as maturity
\* the third Friday of month m of the year 2000 + int(s); the suffix 20 with
\* the month 3 gives 20 March 2020.
C5_ThirdFridayOfYear2000PlusSuffix ==
    pc = "finish" =>
       \A k \in 1..Len(master) :
          ( master[k].maturity_year # NaN /\ master[k].maturity_month # NaN ) =>
             /\ master[k].maturity.year = 2000 + IntValue(master[k].maturity_year)
             /\ master[k].maturity.month = IntValue(master[k].maturity_month)
             /\ IsThirdFriday(master[k].maturity)
             /\ ( master[k].maturity_year = << "2", "0" >> /\ master[k].maturity_month = << "3" >> )
                   => master[k].maturity = [year |-> 2020, month |-> 3, day |-> 20]

\* What does hold of the maturity: it is the third Friday of month m of the
\* year that dateutil resolves the suffix to, which is 2000 + int(s) as long
\* as that year is less than 50 years after the year of the run.
MaturityIsThirdFridayOfResolvedYear ==
    pc = "finish" =>
       \A k \in 1..Len(master) :
          ( master[k].maturity_year # NaN /\ master[k].maturity_month # NaN ) =>
             LET s == IntValue(master[k].maturity_year)
             IN  /\ master[k].maturity.year =
                       (IF 2000 + s < this_year + 50 THEN 2000 + s ELSE 1900 + s)
                 /\ master[k].maturity.month = IntValue(master[k].maturity_month)
                 /\ IsThirdFriday(master[k].maturity)

\* The fields of a synthetic ticker that the two formats can hold: a legacy
\* ticker one year digit, read back as 6..9 or as 10..15, and three strike
\* digits; a modern ticker two year digits and four strike digits.
Encodable(o) ==
    IF o.format = "legacy"
    THEN o.year \in 6..15 /\ o.strike \in 0..999
    ELSE o.year \in 0..99 /\ o.strike \in 0..9999

RoundTrips ==
    /\ pc # "greeks_raised"
    /\ pc \in {"unpack", "maturity", "finish", "greeks_done"} =>
          /\ Len(master) = 1
          /\ master[1].underlying = origin.underlying
          /\ master[1].code = origin.series_code
    /\ pc \in {"maturity", "finish"} =>
          /\ master[1].maturity_year # NaN
          /\ IntValue(master[1].maturity_year) = origin.year
          /\ master[1].strike # NaN
          /\ IntValue(master[1].strike) = origin.strike
    /\ pc = "greeks_done" => master[1].strike = origin.strike

\* C9 as stated: the ticker built from any underlying, series code, two-digit
\* year and strike, in the legacy or in the modern format, is decoded to the
\* same underlying, series code, year and strike.
C9_RoundTripEveryYearAndStrike == origin.format # "none" => RoundTrips

\* C9 as amended: the same, for the years and strikes the format can hold,
\* the year compared as an integer.
C9_RoundTripEncodable == (origin.format # "none" /\ Encodable(origin)) => RoundTrips

\* The legacy ticker of the year 6 and the strike 999 is decoded to them.
C9_Witness ==
    /\ pc = "maturity"
    /\ origin.format = "legacy"
    /\ origin.year = 6
    /\ origin.strike = 999
    /\ master[1].maturity_year = << "6" >>
    /\ master[1].strike = << "9", "9", "9" >>
    /\ master[1].underlying = origin.underlying

====
